---------------------------- MODULE Spec2Model ----------------------------
(***************************************************************************)
(* A model of check_phpfpm_status.py: a Nagios plugin that asks a PHP-FPM  *)
(* pool for its status page over a unix socket (FastCGI), parses the page  *)
(* and maps "listen queue" and the share of active processes to an exit    *)
(* code.                                                                   *)
(*                                                                         *)
(* Text is a sequence of code points, bytes are a sequence of 0..255.      *)
(* A Python value that may be None is a sequence of length 0 (None) or 1.  *)
(***************************************************************************)
EXTENDS Integers, Sequences, FiniteSets, TLC

----------------------------------------------------------------------------
(* Sequences *)

Take(s, n) == SubSeq(s, 1, n)

Drop(s, n) == SubSeq(s, n + 1, Len(s))

Min(a, b) == IF a <= b THEN a ELSE b

Least(S) == CHOOSE x \in S : \A y \in S : x <= y

\* The concatenation of ss[lo..hi], by halves.
RECURSIVE FlattenRange(_, _, _)
FlattenRange(ss, lo, hi) ==
    IF lo > hi THEN <<>>
    ELSE IF lo = hi THEN ss[lo]
    ELSE FlattenRange(ss, lo, (lo + hi) \div 2)
         \o FlattenRange(ss, ((lo + hi) \div 2) + 1, hi)

Flatten(ss) == FlattenRange(ss, 1, Len(ss))

Zeros(n) == [i \in 1..n |-> 0]

\* All sequences over alphabet A of length exactly n, and of length at most n.
RECURSIVE SeqsOfLen(_, _)
SeqsOfLen(A, n) ==
    IF n = 0 THEN {<<>>}
    ELSE {Append(s, c) : s \in SeqsOfLen(A, n - 1), c \in A}

SeqsUpTo(A, n) == UNION {SeqsOfLen(A, k) : k \in 0..n}

None == <<>>

Some(v) == <<v>>

----------------------------------------------------------------------------
(* Python's str and bytes operations, as the script uses them *)

COLON == 58

LF == 10

CR == 13

SPACE == 32

\* The code points str.splitlines() ends a line at (CR LF counts once).
LineBoundaries == {10, 11, 12, 13, 28, 29, 30, 133, 8232, 8233}

\* The code points str.split() without arguments treats as whitespace.
Whitespace ==
    {9, 10, 11, 12, 13, 28, 29, 30, 31, 32, 133, 160, 5760, 8232, 8233,
     8239, 8287, 12288} \cup (8192..8202)

\* str.splitlines(): the text up to each line boundary; no empty last line.
RECURSIVE SplitLines(_)
SplitLines(s) ==
    LET ends  == {i \in 1..Len(s) : s[i] \in LineBoundaries}
        i     == Least(ends)
        width == IF s[i] = CR /\ i < Len(s) /\ s[i + 1] = LF THEN 2 ELSE 1
    IN  IF s = <<>> THEN <<>>
        ELSE IF ends = {} THEN <<s>>
        ELSE <<Take(s, i - 1)>> \o SplitLines(Drop(s, i + width - 1))

StartsAt(s, sep, i) ==
    /\ i + Len(sep) - 1 <= Len(s)
    /\ SubSeq(s, i, i + Len(sep) - 1) = sep

\* str.split(sep), sep not empty: always at least one piece.
RECURSIVE StrSplit(_, _)
StrSplit(s, sep) ==
    LET hits == {i \in 1..Len(s) : StartsAt(s, sep, i)}
    IN  IF hits = {} THEN <<s>>
        ELSE <<Take(s, Least(hits) - 1)>>
             \o StrSplit(Drop(s, Least(hits) + Len(sep) - 1), sep)

\* str.split(): the maximal runs of non-whitespace, none for a blank string.
RECURSIVE StrSplitWs(_)
StrSplitWs(s) ==
    IF s = <<>> THEN <<>>
    ELSE IF Head(s) \in Whitespace THEN StrSplitWs(Tail(s))
    ELSE LET ws == {i \in 1..Len(s) : s[i] \in Whitespace}
         IN  IF ws = {} THEN <<s>>
             ELSE <<Take(s, Least(ws) - 1)>> \o StrSplitWs(Drop(s, Least(ws)))

\* str.encode(): the UTF-8 bytes of one code point, and of a text.
Utf8EncodeChar(c) ==
    IF c < 128 THEN <<c>>
    ELSE IF c < 2048 THEN <<192 + (c \div 64), 128 + (c % 64)>>
    ELSE IF c < 65536
         THEN <<224 + (c \div 4096), 128 + ((c \div 64) % 64), 128 + (c % 64)>>
    ELSE <<240 + (c \div 262144), 128 + ((c \div 4096) % 64),
           128 + ((c \div 64) % 64), 128 + (c % 64)>>

Utf8Encode(s) == Flatten([i \in 1..Len(s) |-> Utf8EncodeChar(s[i])])

IsCont(b) == b \in 128..191

\* The length of the well-formed UTF-8 sequence that starts b at position i,
\* 0 when there is none (bytes.decode() then raises UnicodeDecodeError).
Utf8SeqLen(b, i) ==
    LET n  == Len(b)
        b0 == b[i]
        b1 == IF i + 1 <= n THEN b[i + 1] ELSE 0
        b2 == IF i + 2 <= n THEN b[i + 2] ELSE 0
        b3 == IF i + 3 <= n THEN b[i + 3] ELSE 0
    IN  IF b0 < 128 THEN 1
        ELSE IF b0 \in 194..223 /\ IsCont(b1) THEN 2
        ELSE IF b0 = 224 /\ b1 \in 160..191 /\ IsCont(b2) THEN 3
        ELSE IF b0 = 237 /\ b1 \in 128..159 /\ IsCont(b2) THEN 3
        ELSE IF b0 \in ((225..236) \cup {238, 239}) /\ IsCont(b1) /\ IsCont(b2)
             THEN 3
        ELSE IF b0 = 240 /\ b1 \in 144..191 /\ IsCont(b2) /\ IsCont(b3) THEN 4
        ELSE IF b0 \in 241..243 /\ IsCont(b1) /\ IsCont(b2) /\ IsCont(b3) THEN 4
        ELSE IF b0 = 244 /\ b1 \in 128..143 /\ IsCont(b2) /\ IsCont(b3) THEN 4
        ELSE 0

Utf8CodePoint(b, i, k) ==
    IF k = 1 THEN b[i]
    ELSE IF k = 2 THEN (b[i] - 192) * 64 + (b[i + 1] - 128)
    ELSE IF k = 3
         THEN (b[i] - 224) * 4096 + (b[i + 1] - 128) * 64 + (b[i + 2] - 128)
    ELSE (b[i] - 240) * 262144 + (b[i + 1] - 128) * 4096
         + (b[i + 2] - 128) * 64 + (b[i + 3] - 128)

\* bytes.decode(): [raised |-> TRUE] for UnicodeDecodeError.  In well-formed
\* UTF-8 a character starts at every byte that is no continuation byte, a
\* well-formed sequence starts there, and the next character (or the end)
\* follows right behind it.
Utf8Decode(b) ==
    LET starts == {i \in 1..Len(b) : ~IsCont(b[i])}
        ok     == /\ b = <<>> \/ 1 \in starts
                  /\ \A i \in starts :
                        /\ Utf8SeqLen(b, i) > 0
                        /\ \/ i + Utf8SeqLen(b, i) > Len(b)
                           \/ i + Utf8SeqLen(b, i) \in starts
        points == [i \in 1..Len(b) |->
                      IF i \in starts
                      THEN Utf8CodePoint(b, i, Utf8SeqLen(b, i)) ELSE -1]
        IsPoint(x) == x >= 0
    IN  IF ok THEN [raised |-> FALSE, text |-> SelectSeq(points, IsPoint)]
        ELSE [raised |-> TRUE, text |-> <<>>]

Digits == 48..57

\* int(str) for a token without whitespace: an optional sign, then digits
\* with single underscores between them.
IntDigitsOk(t) ==
    /\ t # <<>>
    /\ t[1] \in Digits /\ t[Len(t)] \in Digits
    /\ \A i \in 1..Len(t) : t[i] \in Digits \cup {95}
    /\ \A i \in 1..(Len(t) - 1) : ~(t[i] = 95 /\ t[i + 1] = 95)

Unsigned(t) == IF t # <<>> /\ t[1] \in {43, 45} THEN Tail(t) ELSE t

IsIntLiteral(t) == IntDigitsOk(Unsigned(t))

RECURSIVE DigitsValue(_, _)
DigitsValue(t, acc) ==
    IF t = <<>> THEN acc
    ELSE IF Head(t) = 95 THEN DigitsValue(Tail(t), acc)
    ELSE DigitsValue(Tail(t), acc * 10 + (Head(t) - 48))

IntValue(t) ==
    IF t[1] = 45 THEN 0 - DigitsValue(Unsigned(t), 0)
    ELSE DigitsValue(Unsigned(t), 0)

\* struct.pack("!H", n): two bytes, big-endian.
PackH(n) == <<(n \div 256) % 256, n % 256>>

UnpackH(b) == b[1] * 256 + b[2]

----------------------------------------------------------------------------
(* Program constants *)

LISTEN_QUEUE_WARNING == 5

LISTEN_QUEUE_CRITICAL == 10

ACTIVE_PROCESSES_PCT_WARNING == 70

ACTIVE_PROCESSES_PCT_CRITICAL == 90

\* "/status"
DEFAULT_FPM_STATUS_PATH == <<47, 115, 116, 97, 116, 117, 115>>

FCGI_VERSION == 1

FCGI_BEGIN_REQUEST == 1

FCGI_PARAMS == 4

FCGI_RESPONDER == 1

FCGI_HDR_LENGTH == 8

\* The record types execute() tells apart: 6 (STDOUT) and 7 (STDERR).
FCGI_STDOUT == 6

FCGI_STDERR == 7

\* A record type execute() does not know: 3 (END_REQUEST).
FCGI_END_REQUEST == 3

REQUEST_ID == 1

\* The exit status of the interpreter after an uncaught exception.
EXIT_UNCAUGHT == 1

EXIT_OK == 0

EXIT_WARNING == 1

EXIT_CRITICAL == 2

EXIT_UNKNOWN == 3

S_SCRIPT_NAME == <<83, 67, 82, 73, 80, 84, 95, 78, 65, 77, 69>>

S_SCRIPT_FILENAME ==
    <<83, 67, 82, 73, 80, 84, 95, 70, 73, 76, 69, 78, 65, 77, 69>>

S_QUERY_STRING == <<81, 85, 69, 82, 89, 95, 83, 84, 82, 73, 78, 71>>

S_REQUEST_METHOD == <<82, 69, 81, 85, 69, 83, 84, 95, 77, 69, 84, 72, 79, 68>>

S_GET == <<71, 69, 84>>

\* "listen queue", "active processes", "total processes"
K_LISTEN_QUEUE == <<108, 105, 115, 116, 101, 110, 32, 113, 117, 101, 117, 101>>

K_ACTIVE_PROCESSES ==
    <<97, 99, 116, 105, 118, 101, 32, 112, 114, 111, 99, 101, 115, 115, 101, 115>>

K_TOTAL_PROCESSES ==
    <<116, 111, 116, 97, 108, 32, 112, 114, 111, 99, 101, 115, 115, 101, 115>>

\* "\r\n\r\n"
HEADER_SEPARATOR == <<CR, LF, CR, LF>>

----------------------------------------------------------------------------
(* FastCGI records, as define_begin_request and define_params pack them *)

\* struct.pack("!BBHHBx", ...) raises struct.error outside these ranges.
HeaderPackable(version, type, id, length, padding) ==
    /\ version \in 0..255 /\ type \in 0..255 /\ padding \in 0..255
    /\ id \in 0..65535 /\ length \in 0..65535

\* struct.pack("!BBHHBx", version, type, id, length, padding)
PackHeader(version, type, id, length, padding) ==
    <<version, type>> \o PackH(id) \o PackH(length) \o <<padding, 0>>

\* struct.unpack("!BBHHBx", header) of exactly 8 bytes
UnpackHeader(h) ==
    [version |-> h[1], type |-> h[2], id |-> UnpackH(SubSeq(h, 3, 4)),
     length |-> UnpackH(SubSeq(h, 5, 6)), padding |-> h[7]]

\* struct.pack("!HB5x", FCGI_RESPONDER, 0) behind its header
BeginRequestRecord ==
    LET body == PackH(FCGI_RESPONDER) \o <<0>> \o Zeros(5)
    IN  PackHeader(FCGI_VERSION, FCGI_BEGIN_REQUEST, REQUEST_ID, Len(body), 0)
        \o body

\* self.params of __init__: the pairs in insertion order.
ClientParams(status_path) ==
    << <<S_SCRIPT_NAME, status_path>>, <<S_SCRIPT_FILENAME, status_path>>,
       <<S_QUERY_STRING, <<>> >>, <<S_REQUEST_METHOD, S_GET>> >>

\* chr(len(name)) + chr(len(value)) + name + value, a text
ParamPair(name, value) == <<Len(name), Len(value)>> \o name \o value

RECURSIVE JoinPairs(_)
JoinPairs(ps) ==
    IF ps = <<>> THEN <<>>
    ELSE ParamPair(Head(ps)[1], Head(ps)[2]) \o JoinPairs(Tail(ps))

\* params_length & 7
ParamsPaddingReq(params_length) == params_length % 8

\* The bytes define_params stores in self.fcgi_params.
ParamsRecords(ps) ==
    LET params             == JoinPairs(ps)
        params_length      == Len(params)
        params_padding_req == ParamsPaddingReq(params_length)
        fcgi_hdr_start     == PackHeader(FCGI_VERSION, FCGI_PARAMS, REQUEST_ID,
                                         params_length, params_padding_req)
        fcgi_hdr_end       == PackHeader(FCGI_VERSION, FCGI_PARAMS, REQUEST_ID,
                                         0, 0)
    IN  fcgi_hdr_start \o Utf8Encode(params) \o Zeros(params_padding_req)
        \o fcgi_hdr_end

\* define_params raises struct.error when the text is too long for "H".
ParamsPackable(ps) ==
    HeaderPackable(FCGI_VERSION, FCGI_PARAMS, REQUEST_ID, Len(JoinPairs(ps)),
                   ParamsPaddingReq(Len(JoinPairs(ps))))

----------------------------------------------------------------------------
(* The state of one run of the script *)

VARIABLES
    pc,                       \* the statement the script is about to run
    args,                     \* argparse's result, None for an option not given
    fpm_status_path,          \* the script's globals of lines 158-163
    listen_queue_warning,
    listen_queue_critical,
    active_percent_warning,
    active_percent_critical,
    sock,                     \* "none", "open", "connected" or "closed"
    params,                   \* self.params
    fcgi_begin_request,       \* the client's fields, None until set
    fcgi_params,
    raw_status_data,
    status_data,
    peer,                     \* what the pool did during execute()
    ioLog,                    \* the socket calls made so far, in order
    fpm_status,               \* the dict of line 202, None until set
    exit_code,                \* None while the script runs
    traceback                 \* the uncaught exception, "" for none

vars ==
    <<pc, args, fpm_status_path, listen_queue_warning, listen_queue_critical,
      active_percent_warning, active_percent_critical, sock, params,
      fcgi_begin_request, fcgi_params, raw_status_data, status_data, peer,
      ioLog, fpm_status, exit_code, traceback>>

globals ==
    <<fpm_status_path, listen_queue_warning, listen_queue_critical,
      active_percent_warning, active_percent_critical>>

client == <<params, fcgi_begin_request, fcgi_params, raw_status_data, status_data>>

\* No pool has answered yet.
NoPeer ==
    [send |-> 0, records |-> <<>>, delivered |-> 0, eof |-> "none",
     at |-> "none", short |-> 0]

\* The state after lines 156-163, for one choice of command-line options.
InitWith(argSet) ==
    /\ args \in argSet
    /\ pc = "apply_args"
    /\ fpm_status_path = DEFAULT_FPM_STATUS_PATH
    /\ listen_queue_warning = LISTEN_QUEUE_WARNING
    /\ listen_queue_critical = LISTEN_QUEUE_CRITICAL
    /\ active_percent_warning = ACTIVE_PROCESSES_PCT_WARNING
    /\ active_percent_critical = ACTIVE_PROCESSES_PCT_CRITICAL
    /\ sock = "none"
    /\ params = <<>>
    /\ fcgi_begin_request = None
    /\ fcgi_params = None
    /\ raw_status_data = None
    /\ status_data = None
    /\ peer = NoPeer
    /\ ioLog = <<>>
    /\ fpm_status = None
    /\ exit_code = None
    /\ traceback = ""

\* sys.exit(code)
Exit(code) ==
    /\ pc' = "done"
    /\ exit_code' = Some(code)
    /\ traceback' = ""

\* An exception nothing catches: the interpreter prints it and exits 1.
Uncaught(exception) ==
    /\ pc' = "done"
    /\ exit_code' = Some(EXIT_UNCAUGHT)
    /\ traceback' = exception

Goto(label) ==
    /\ pc' = label
    /\ UNCHANGED <<exit_code, traceback>>

OrDefault(opt, default) == IF opt = None THEN default ELSE opt[1]

\* Lines 165-181: an option that was given replaces the default.
ApplyArgs ==
    /\ pc = "apply_args"
    /\ fpm_status_path' = OrDefault(args.status_path, fpm_status_path)
    /\ listen_queue_warning' = OrDefault(args.queue_warning, listen_queue_warning)
    /\ listen_queue_critical' =
           OrDefault(args.queue_critical, listen_queue_critical)
    /\ active_percent_warning' =
           OrDefault(args.processes_warning, active_percent_warning)
    /\ active_percent_critical' =
           OrDefault(args.processes_critical, active_percent_critical)
    /\ Goto("validate")
    /\ UNCHANGED <<args, sock, client, peer, ioLog, fpm_status>>

\* The checks without the range check of the critical percentage.
ThresholdsRejectedNoCriticalRange(qw, qc, pw, pcrit) ==
    \/ qw >= qc
    \/ pw >= pcrit
    \/ pw < 0 \/ pw > 100

\* The threshold checks at lines 183-197 fail on this configuration.
ThresholdsRejected(qw, qc, pw, pcrit) ==
    \/ qw >= qc
    \/ pw >= pcrit
    \/ pw < 0 \/ pw > 100
    \/ pcrit < 0 \/ pcrit > 100

\* Lines 183-197.
ValidateThresholds ==
    /\ pc = "validate"
    /\ IF ThresholdsRejected(listen_queue_warning, listen_queue_critical,
                             active_percent_warning, active_percent_critical)
       THEN Exit(EXIT_UNKNOWN)
       ELSE Goto("construct")
    /\ UNCHANGED <<args, globals, sock, client, peer, ioLog, fpm_status>>

\* Line 199, FCGIStatusClient.__init__: the socket is created, not connected.
Construct ==
    /\ pc = "construct"
    /\ sock' = "open"
    /\ params' = ClientParams(fpm_status_path)
    /\ Goto("define_begin_request")
    /\ UNCHANGED <<args, globals, fcgi_begin_request, fcgi_params,
                   raw_status_data, status_data, peer, ioLog, fpm_status>>

DefineBeginRequest ==
    /\ pc = "define_begin_request"
    /\ fcgi_begin_request' = Some(BeginRequestRecord)
    /\ Goto("define_params")
    /\ UNCHANGED <<args, globals, sock, params, fcgi_params, raw_status_data,
                   status_data, peer, ioLog, fpm_status>>

DefineParams ==
    /\ pc = "define_params"
    /\ IF ParamsPackable(params)
       THEN /\ fcgi_params' = Some(ParamsRecords(params))
            /\ Goto("connect")
       ELSE /\ Uncaught("struct.error")
            /\ UNCHANGED fcgi_params
    /\ UNCHANGED <<args, globals, sock, params, fcgi_begin_request,
                   raw_status_data, status_data, peer, ioLog, fpm_status>>

----------------------------------------------------------------------------
(* The request builder alone, for status paths of every small length *)

MaxPathLen == 4

\* "/", "s" and a letter outside ASCII (two bytes in UTF-8).
PathAlphabet == {47, 115, 233}

NoThresholdArgs(path) ==
    [status_path |-> path, queue_warning |-> None, queue_critical |-> None,
     processes_warning |-> None, processes_critical |-> None]

ParamsArgs ==
    {NoThresholdArgs(p) :
        p \in {None} \cup {Some(s) : s \in SeqsUpTo(PathAlphabet, MaxPathLen)}}

InitParams == InitWith(ParamsArgs)

NextParams ==
    \/ ApplyArgs
    \/ ValidateThresholds
    \/ Construct
    \/ DefineBeginRequest
    \/ DefineParams

SpecParams == InitParams /\ [][NextParams]_vars

----------------------------------------------------------------------------
(* The pool's side of the exchange *)

\* One record of the response: its type, its content bytes and the number of
\* padding bytes behind them.
Record(type, content) ==
    [type |-> type, content |-> content, padding |-> (8 - (Len(content) % 8)) % 8]

EncodeRecord(r) ==
    PackHeader(FCGI_VERSION, r.type, REQUEST_ID, Len(r.content), r.padding)
    \o r.content \o Zeros(r.padding)

RECURSIVE Wire(_)
Wire(records) ==
    IF records = <<>> THEN <<>>
    ELSE EncodeRecord(Head(records)) \o Wire(Tail(records))

\* How a well-behaved pool ends its answer: an empty STDOUT record, then
\* END_REQUEST (appStatus 0, protocolStatus 0).
EndOfResponse == <<Record(FCGI_STDOUT, <<>>), Record(FCGI_END_REQUEST, Zeros(8))>>

\* "Content-type: text/plain" and the blank line behind the CGI headers
CgiHead ==
    <<67, 111, 110, 116, 101, 110, 116, 45, 116, 121, 112, 101, 58, 32, 116,
      101, 120, 116, 47, 112, 108, 97, 105, 110>> \o HEADER_SEPARATOR

\* One line of the status page, "key: value\n"; no line for None.
StatusLine(key, value) ==
    IF value = None THEN <<>>
    ELSE << key \o <<COLON, SPACE>> \o value[1] \o <<LF>> >>

\* The values the pool reports: None (the line is missing), "x", and numbers.
ListenQueueValues ==
    {None, Some(<<120>>), Some(<<48>>), Some(<<53>>), Some(<<49, 48>>)}

ActiveValues ==
    {None, Some(<<120>>), Some(<<48>>), Some(<<55>>), Some(<<49, 48>>),
     Some(<<57, 53>>)}

TotalValues == {None, Some(<<48>>), Some(<<49, 48>>), Some(<<49, 48, 48>>)}

\* The pieces of a CGI answer: the header block, then the status lines.
StatusParts ==
    {<<CgiHead>> \o StatusLine(K_LISTEN_QUEUE, lq)
                 \o StatusLine(K_ACTIVE_PROCESSES, ap)
                 \o StatusLine(K_TOTAL_PROCESSES, tp) :
        lq \in ListenQueueValues, ap \in ActiveValues, tp \in TotalValues}

\* "garbage\n", a line without a colon, before well-formed metrics; an answer
\* without the blank line; an answer that is not UTF-8.
OddParts ==
    { <<CgiHead, <<103, 97, 114, 98, 97, 103, 101, LF>> >>
          \o StatusLine(K_LISTEN_QUEUE, Some(<<48>>))
          \o StatusLine(K_ACTIVE_PROCESSES, Some(<<48>>))
          \o StatusLine(K_TOTAL_PROCESSES, Some(<<49, 48>>)),
      << <<103, 97, 114, 98, 97, 103, 101, LF>> >>,
      << <<255>> \o HEADER_SEPARATOR >> }

\* The answer in STDOUT records: the first j pieces in one record, the rest
\* (if any) in a second one, then the end of the response.
ResponseOf(parts, j) ==
    <<Record(FCGI_STDOUT, Flatten(SubSeq(parts, 1, j)))>>
    \o (IF j < Len(parts)
        THEN <<Record(FCGI_STDOUT, Flatten(SubSeq(parts, j + 1, Len(parts))))>>
        ELSE <<>>)
    \o EndOfResponse

\* Answers that start with something else than STDOUT content: an error
\* message on STDERR ("err"), END_REQUEST, the empty STDOUT record.
OddResponses ==
    { <<Record(FCGI_STDERR, <<101, 114, 114>>)>> \o EndOfResponse,
      <<Record(FCGI_END_REQUEST, Zeros(8))>>,
      EndOfResponse }

Responses ==
    UNION {{ResponseOf(parts, j) : j \in 1..Len(parts)} :
              parts \in StatusParts \cup OddParts}
    \cup OddResponses

\* By how many bytes one recv() may fall short of what was asked for and sent.
MaxShort == 1

ShortReads ==
    {[at |-> "none", short |-> 0]}
    \cup [at : {"header", "content"}, short : 1..MaxShort]

\* What the pool does during execute(): which send() fails (0: none), the
\* records it answers with, how many of their bytes it delivers before it
\* stops, whether it then closes the connection or stays silent, and which
\* recv() returns fewer bytes than were asked for.
Outcome(send, records, delivered, eof, sr) ==
    [send |-> send, records |-> records, delivered |-> delivered, eof |-> eof,
     at |-> sr.at, short |-> sr.short]

NoShort == [at |-> "none", short |-> 0]

Outcomes ==
    {Outcome(s, <<>>, 0, "closed", NoShort) : s \in {1, 2}}
    \cup {Outcome(0, <<>>, 0, e, NoShort) : e \in {"closed", "timeout"}}
    \cup {Outcome(0, r, FCGI_HDR_LENGTH, e, NoShort) :
              r \in Responses, e \in {"closed", "timeout"}}
    \cup {Outcome(0, r, Len(Wire(r)), "closed", sr) :
              r \in Responses, sr \in ShortReads}

\* socket.recv(n) on the bytes still to come: "timeout" when nothing arrives,
\* b'' when the peer has closed, else at least one byte (none for n = 0).
Recv(remaining, n, eof, short) ==
    IF remaining = <<>>
    THEN [raised |-> eof = "timeout", data |-> <<>>]
    ELSE [raised |-> FALSE,
          data |-> IF n = 0 THEN <<>>
                   ELSE IF Min(n, Len(remaining)) - short < 1
                        THEN Take(remaining, 1)
                        ELSE Take(remaining, Min(n, Len(remaining)) - short)]

----------------------------------------------------------------------------
(* FCGIStatusClient.connect, execute and close *)

\* Lines 66-71.  The pool accepts the connection or connect() raises.
Connect ==
    /\ pc = "connect"
    /\ \E accepted \in BOOLEAN :
          /\ ioLog' = Append(ioLog, "connect")
          /\ IF accepted
             THEN sock' = "connected" /\ Goto("execute")
             ELSE UNCHANGED sock /\ Exit(EXIT_UNKNOWN)
    /\ UNCHANGED <<args, globals, client, peer, fpm_status>>

\* The try block of execute(), lines 99-112, against outcome o:
\* [calls, raised, data], raised for any exception in the block.
TryBlock(o) ==
    LET wire   == Take(Wire(o.records), o.delivered)
        first  == Recv(wire, FCGI_HDR_LENGTH, o.eof,
                       IF o.at = "header" THEN o.short ELSE 0)
        header == first.data
        h      == UnpackHeader(header)
        second == Recv(Drop(wire, Len(header)), h.length, o.eof,
                       IF o.at = "content" THEN o.short ELSE 0)
    IN  IF o.send = 1
        THEN [calls |-> <<"send">>, raised |-> TRUE, data |-> <<>>]
        ELSE IF o.send = 2
        THEN [calls |-> <<"send", "send">>, raised |-> TRUE, data |-> <<>>]
        ELSE IF first.raised \/ Len(header) # FCGI_HDR_LENGTH
        THEN [calls |-> <<"send", "send", "recv">>, raised |-> TRUE,
              data |-> <<>>]
        ELSE IF h.type # FCGI_STDOUT
        THEN [calls |-> <<"send", "send", "recv">>, raised |-> TRUE,
              data |-> <<>>]
        ELSE [calls |-> <<"send", "send", "recv", "recv">>,
              raised |-> second.raised, data |-> second.data]

\* Line 116: self.raw_status_data.decode().split("\r\n\r\n")[1]
\* [raised, exception, text]
StatusBody(raw) ==
    LET decoded == Utf8Decode(raw)
        pieces  == StrSplit(decoded.text, HEADER_SEPARATOR)
    IN  IF decoded.raised
        THEN [raised |-> TRUE, exception |-> "UnicodeDecodeError", text |-> <<>>]
        ELSE IF Len(pieces) < 2
        THEN [raised |-> TRUE, exception |-> "IndexError", text |-> <<>>]
        ELSE [raised |-> FALSE, exception |-> "", text |-> pieces[2]]

\* Lines 98-116.
Execute ==
    /\ pc = "execute"
    /\ \E o \in Outcomes :
          LET try  == TryBlock(o)
              body == StatusBody(try.data)
          IN  /\ peer' = o
              /\ ioLog' = ioLog \o try.calls
              /\ IF try.raised
                 THEN /\ Exit(EXIT_UNKNOWN)
                      /\ UNCHANGED <<raw_status_data, status_data>>
                 ELSE /\ raw_status_data' = Some(try.data)
                      /\ IF body.raised
                         THEN /\ Uncaught(body.exception)
                              /\ UNCHANGED status_data
                         ELSE /\ status_data' = Some(body.text)
                              /\ Goto("close")
    /\ UNCHANGED <<args, globals, sock, params, fcgi_begin_request, fcgi_params,
                   fpm_status>>

\* Lines 73-74, called from make_request at line 123.
Close ==
    /\ pc = "close"
    /\ sock' = "closed"
    /\ ioLog' = Append(ioLog, "close")
    /\ Goto("output_json_status")
    /\ UNCHANGED <<args, globals, client, peer, fpm_status>>

----------------------------------------------------------------------------
(* FCGIStatusClient.output_json_status and the json round trip of line 202 *)

\* out_list[param] = value on a dict kept as its items in insertion order.
DictSet(d, k, v) ==
    IF \E i \in 1..Len(d) : d[i][1] = k
    THEN [i \in 1..Len(d) |-> IF d[i][1] = k THEN <<k, v>> ELSE d[i]]
    ELSE Append(d, <<k, v>>)

\* The loop of lines 133-134 left after its first round.
SetFirst(d, param, values) ==
    IF values = <<>> THEN d ELSE DictSet(d, param, Head(values))

\* Lines 133-134: for values in params[1].split(): out_list[param] = values
RECURSIVE SetEach(_, _, _)
SetEach(d, param, values) ==
    IF values = <<>> THEN d
    ELSE SetEach(DictSet(d, param, Head(values)), param, Tail(values))

\* Lines 130-134 over the lines still to read: params[1] raises IndexError
\* for a line without a colon, and the dict built so far is lost.
RECURSIVE ParseLines(_, _)
ParseLines(lines, out_list) ==
    IF lines = <<>> THEN [raised |-> FALSE, out |-> out_list]
    ELSE LET line   == Head(lines)
             parts  == StrSplit(line, <<COLON>>)
         IN  IF Len(parts) < 2 THEN [raised |-> TRUE, out |-> <<>>]
             ELSE ParseLines(Tail(lines),
                             SetEach(out_list, parts[1], StrSplitWs(parts[2])))

Hex == <<48, 49, 50, 51, 52, 53, 54, 55, 56, 57, 97, 98, 99, 100, 101, 102>>

\* \uXXXX
JsonU(n) ==
    <<92, 117, Hex[((n \div 4096) % 16) + 1], Hex[((n \div 256) % 16) + 1],
      Hex[((n \div 16) % 16) + 1], Hex[(n % 16) + 1]>>

\* json.dumps of one character of a string (ensure_ascii).
JsonEscapeChar(c) ==
    IF c = 34 THEN <<92, 34>>
    ELSE IF c = 92 THEN <<92, 92>>
    ELSE IF c = 10 THEN <<92, 110>>
    ELSE IF c = 13 THEN <<92, 114>>
    ELSE IF c = 9 THEN <<92, 116>>
    ELSE IF c = 12 THEN <<92, 102>>
    ELSE IF c = 8 THEN <<92, 98>>
    ELSE IF c \in 32..126 THEN <<c>>
    ELSE IF c < 65536 THEN JsonU(c)
    ELSE JsonU(55296 + ((c - 65536) \div 1024))
         \o JsonU(56320 + ((c - 65536) % 1024))

JsonEscape(s) == Flatten([i \in 1..Len(s) |-> JsonEscapeChar(s[i])])

JsonString(s) == <<34>> \o JsonEscape(s) \o <<34>>

RECURSIVE JsonMembers(_)
JsonMembers(d) ==
    IF d = <<>> THEN <<>>
    ELSE JsonString(Head(d)[1]) \o <<COLON, SPACE>> \o JsonString(Head(d)[2])
         \o (IF Len(d) > 1 THEN <<44, SPACE>> ELSE <<>>)
         \o JsonMembers(Tail(d))

\* json.dumps(out_list): the text of a JSON object.
JsonDumps(d) == <<123>> \o JsonMembers(d) \o <<125>>

HexValue(c) == IF c \in Digits THEN c - 48 ELSE c - 87

JsonHex4(t, i) ==
    HexValue(t[i]) * 4096 + HexValue(t[i + 1]) * 256 + HexValue(t[i + 2]) * 16
    + HexValue(t[i + 3])

\* The character an escape at t[i] = "\" stands for, and where it ends.
JsonUnescapeAt(t, i) ==
    LET e  == t[i + 1]
        hi == JsonHex4(t, i + 2)
    IN  IF e = 110 THEN [char |-> 10, next |-> i + 2]
        ELSE IF e = 114 THEN [char |-> 13, next |-> i + 2]
        ELSE IF e = 116 THEN [char |-> 9, next |-> i + 2]
        ELSE IF e = 102 THEN [char |-> 12, next |-> i + 2]
        ELSE IF e = 98 THEN [char |-> 8, next |-> i + 2]
        ELSE IF e # 117 THEN [char |-> e, next |-> i + 2]
        ELSE IF hi \in 55296..56319 /\ i + 11 <= Len(t) /\ t[i + 6] = 92
                /\ t[i + 7] = 117 /\ JsonHex4(t, i + 8) \in 56320..57343
        THEN [char |-> 65536 + (hi - 55296) * 1024
                       + (JsonHex4(t, i + 8) - 56320),
              next |-> i + 12]
        ELSE [char |-> hi, next |-> i + 6]

\* The string whose opening quote is at t[i - 1]: its text and the index
\* behind its closing quote.
RECURSIVE JsonReadString(_, _, _)
JsonReadString(t, i, acc) ==
    IF t[i] = 34 THEN [text |-> acc, next |-> i + 1]
    ELSE IF t[i] = 92
    THEN JsonReadString(t, JsonUnescapeAt(t, i).next,
                        Append(acc, JsonUnescapeAt(t, i).char))
    ELSE JsonReadString(t, i + 1, Append(acc, t[i]))

\* The members from t[i] on, as key/value pairs in the order of the text.
RECURSIVE JsonReadMembers(_, _, _)
JsonReadMembers(t, i, acc) ==
    IF t[i] = 125 THEN acc
    ELSE IF t[i] \in {44, SPACE} THEN JsonReadMembers(t, i + 1, acc)
    ELSE LET key   == JsonReadString(t, i + 1, <<>>)
             value == JsonReadString(t, key.next + 3, <<>>)
         IN  JsonReadMembers(t, value.next,
                             Append(acc, <<key.text, value.text>>))

\* json.loads of the text of an object of strings: a dict, as a function;
\* of two members with one key the later one counts.
JsonLoads(t) ==
    LET members == JsonReadMembers(t, 2, <<>>)
        last(k) == CHOOSE i \in 1..Len(members) :
                       /\ members[i][1] = k
                       /\ \A j \in (i + 1)..Len(members) : members[j][1] # k
    IN  [k \in {members[i][1] : i \in 1..Len(members)} |-> members[last(k)][2]]

\* Lines 128-135: [raised, json]
OutputJson(body) ==
    LET parsed == ParseLines(SplitLines(body), <<>>)
    IN  [raised |-> parsed.raised, json |-> JsonDumps(parsed.out)]

\* Line 202.
OutputJsonStatus ==
    /\ pc = "output_json_status"
    /\ LET r == OutputJson(status_data[1])
       IN  IF r.raised
           THEN Uncaught("IndexError") /\ UNCHANGED fpm_status
           ELSE fpm_status' = Some(JsonLoads(r.json)) /\ Goto("evaluate_queue")
    /\ UNCHANGED <<args, globals, sock, client, peer, ioLog>>

----------------------------------------------------------------------------
(* The verdict, lines 204-226 *)

\* int(fpm_status[key]): [exception, value], exception "" when there is none.
Metric(status, key) ==
    IF key \notin DOMAIN status THEN [exception |-> "KeyError", value |-> 0]
    ELSE IF ~IsIntLiteral(status[key])
    THEN [exception |-> "ValueError", value |-> 0]
    ELSE [exception |-> "", value |-> IntValue(status[key])]

\* a >= b < c, Python's chained comparison: a >= b and b < c
ChainedGeLt(a_ge_b, b, c) == a_ge_b /\ b < c

\* The branch lines 205-210 take: the exit code, or None to go on.
QueueVerdict(listen_queue, warning, critical) ==
    IF ChainedGeLt(listen_queue >= warning, warning, critical)
    THEN Some(EXIT_WARNING)
    ELSE IF listen_queue >= critical THEN Some(EXIT_CRITICAL)
    ELSE None

\* Lines 204-210.
EvaluateQueue ==
    /\ pc = "evaluate_queue"
    /\ LET m == Metric(fpm_status[1], K_LISTEN_QUEUE)
           v == QueueVerdict(m.value, listen_queue_warning, listen_queue_critical)
       IN  IF m.exception # "" THEN Uncaught(m.exception)
           ELSE IF v # None THEN Exit(v[1])
           ELSE Goto("evaluate_processes")
    /\ UNCHANGED <<args, globals, sock, client, peer, ioLog, fpm_status>>

\* active/total*100 >= threshold for total # 0.  The script computes the left
\* side in floating point; for the values the pool reports here the exact
\* comparison and the floating-point one agree.
UsedPctAtLeast(active, total, threshold) ==
    IF total > 0 THEN active * 100 >= threshold * total
    ELSE active * 100 <= threshold * total

\* The branch lines 216-226 take.
ProcessesVerdict(active, total, warning, critical) ==
    IF ChainedGeLt(UsedPctAtLeast(active, total, warning), warning, critical)
    THEN EXIT_WARNING
    ELSE IF UsedPctAtLeast(active, total, critical) THEN EXIT_CRITICAL
    ELSE EXIT_OK

\* Lines 212-226.
EvaluateProcesses ==
    /\ pc = "evaluate_processes"
    /\ LET a == Metric(fpm_status[1], K_ACTIVE_PROCESSES)
           t == Metric(fpm_status[1], K_TOTAL_PROCESSES)
       IN  IF a.exception # "" THEN Uncaught(a.exception)
           ELSE IF t.exception # "" THEN Uncaught(t.exception)
           ELSE IF t.value = 0 THEN Uncaught("ZeroDivisionError")
           ELSE Exit(ProcessesVerdict(a.value, t.value, active_percent_warning,
                                      active_percent_critical))
    /\ UNCHANGED <<args, globals, sock, client, peer, ioLog, fpm_status>>

----------------------------------------------------------------------------
(* One run of the script *)

QueueWarningArgs == {None, Some(0), Some(10)}

QueueCriticalArgs == {None, Some(5)}

ProcessesWarningArgs == {None, Some(-1), Some(0), Some(90), Some(101)}

ProcessesCriticalArgs == {None, Some(70), Some(100), Some(101)}

ScriptArgs ==
    [status_path : {None}, queue_warning : QueueWarningArgs,
     queue_critical : QueueCriticalArgs,
     processes_warning : ProcessesWarningArgs,
     processes_critical : ProcessesCriticalArgs]

Init == InitWith(ScriptArgs)

Next ==
    \/ ApplyArgs
    \/ ValidateThresholds
    \/ Construct
    \/ DefineBeginRequest
    \/ DefineParams
    \/ Connect
    \/ Execute
    \/ Close
    \/ OutputJsonStatus
    \/ EvaluateQueue
    \/ EvaluateProcesses

Spec == Init /\ [][Next]_vars

----------------------------------------------------------------------------
(* The parser alone, on every small status body *)

MaxBodyLen == 6

MaxLines == 2

\* "a", ":", " " and "\n"
ParseAlphabet == {97, COLON, SPACE, LF}

\* "start time: 01/Jan/2020:10:00:00 +0100"
StartTimeLine ==
    <<115, 116, 97, 114, 116, 32, 116, 105, 109, 101, 58, 32, 48, 49, 47, 74,
      97, 110, 47, 50, 48, 50, 48, 58, 49, 48, 58, 48, 48, 58, 48, 48, 32, 43,
      48, 49, 48, 48>>

\* "a: 1", "a: 2 3", "b:", "b: 1:2 3", "garbage", "", the start time, and
\* "listen queue: 0"
LinePool ==
    { <<97, 58, 32, 49>>, <<97, 58, 32, 50, 32, 51>>, <<98, 58>>,
      <<98, 58, 32, 49, 58, 50, 32, 51>>, <<103, 97, 114, 98, 97, 103, 101>>,
      <<>>, StartTimeLine, K_LISTEN_QUEUE \o <<COLON, SPACE, 48>> }

JoinLines(lines) == Flatten([i \in 1..Len(lines) |-> Append(lines[i], LF)])

ParseBodies ==
    SeqsUpTo(ParseAlphabet, MaxBodyLen)
    \cup {JoinLines(ls) : ls \in SeqsUpTo(LinePool, MaxLines)}

\* The state behind close() when the pool has answered with the CGI headers
\* and this body in one STDOUT record, for a run without options.
AfterClose(body) ==
    LET records == ResponseOf(<<CgiHead, body>>, 2)
    IN  /\ pc = "output_json_status"
        /\ args = NoThresholdArgs(None)
        /\ fpm_status_path = DEFAULT_FPM_STATUS_PATH
        /\ listen_queue_warning = LISTEN_QUEUE_WARNING
        /\ listen_queue_critical = LISTEN_QUEUE_CRITICAL
        /\ active_percent_warning = ACTIVE_PROCESSES_PCT_WARNING
        /\ active_percent_critical = ACTIVE_PROCESSES_PCT_CRITICAL
        /\ sock = "closed"
        /\ params = ClientParams(DEFAULT_FPM_STATUS_PATH)
        /\ fcgi_begin_request = Some(BeginRequestRecord)
        /\ fcgi_params = Some(ParamsRecords(ClientParams(DEFAULT_FPM_STATUS_PATH)))
        /\ raw_status_data = Some(Utf8Encode(CgiHead \o body))
        /\ status_data = Some(body)
        /\ peer = Outcome(0, records, Len(Wire(records)), "closed", NoShort)
        /\ ioLog = <<"connect", "send", "send", "recv", "recv", "close">>
        /\ fpm_status = None
        /\ exit_code = None
        /\ traceback = ""

InitParse == \E body \in ParseBodies : AfterClose(body)

NextParse == OutputJsonStatus

SpecParse == InitParse /\ [][NextParse]_vars

----------------------------------------------------------------------------
(* What the claims speak of *)

Range(s) == {s[i] : i \in 1..Len(s)}

Greatest(S) == CHOOSE x \in S : \A y \in S : x >= y

HasColon(s) == \E i \in 1..Len(s) : s[i] = COLON

FirstColon(s) == Least({i \in 1..Len(s) : s[i] = COLON})

\* The text before the first colon, behind it, and behind it up to the next.
KeyOf(line) == Take(line, FirstColon(line) - 1)

AfterFirstColon(line) == Drop(line, FirstColon(line))

UpToColon(s) == IF HasColon(s) THEN Take(s, FirstColon(s) - 1) ELSE s

BetweenColons(line) == UpToColon(AfterFirstColon(line))

HasToken(s) == \E i \in 1..Len(s) : s[i] \notin Whitespace

\* The last run of non-whitespace of a text that has one.
LastToken(s) ==
    LET last  == Greatest({i \in 1..Len(s) : s[i] \notin Whitespace})
        first == Greatest({0} \cup {i \in 1..last : s[i] \in Whitespace}) + 1
    IN  SubSeq(s, first, last)

BodyLines == SplitLines(status_data[1])

\* The thresholds the options and the defaults amount to.
QueueWarning == OrDefault(args.queue_warning, LISTEN_QUEUE_WARNING)

QueueCritical == OrDefault(args.queue_critical, LISTEN_QUEUE_CRITICAL)

UtilizationWarning ==
    OrDefault(args.processes_warning, ACTIVE_PROCESSES_PCT_WARNING)

UtilizationCritical ==
    OrDefault(args.processes_critical, ACTIVE_PROCESSES_PCT_CRITICAL)

Ended(code) == pc = "done" /\ exit_code = Some(code)

\* The snapshot has this metric as an integer.
IsInt(key) ==
    /\ key \in DOMAIN fpm_status[1]
    /\ IsIntLiteral(fpm_status[1][key])

ValueOf(key) == IntValue(fpm_status[1][key])

\* C1: with queueWarning < queueCritical and an integer listen queue, the run
\* ends CRITICAL (2) when listen queue >= queueCritical and WARNING (1) when
\* queueWarning <= listen queue < queueCritical.
C1_QueueVerdict ==
    (pc = "done" /\ fpm_status # None /\ IsInt(K_LISTEN_QUEUE)) =>
        /\ ValueOf(K_LISTEN_QUEUE) >= QueueCritical => exit_code = Some(2)
        /\ (/\ ValueOf(K_LISTEN_QUEUE) >= QueueWarning
            /\ ValueOf(K_LISTEN_QUEUE) < QueueCritical) => exit_code = Some(1)

\* C2: with listen queue < queueWarning and total processes > 0, the run ends
\* CRITICAL (2) when active/total*100 >= utilizationCritical, WARNING (1) when
\* it is in [utilizationWarning, utilizationCritical), and OK (0) below.
C2_UtilizationVerdict ==
    LET active == ValueOf(K_ACTIVE_PROCESSES)
        total  == ValueOf(K_TOTAL_PROCESSES)
    IN  (/\ pc = "done" /\ fpm_status # None
         /\ IsInt(K_LISTEN_QUEUE) /\ IsInt(K_ACTIVE_PROCESSES)
         /\ IsInt(K_TOTAL_PROCESSES)
         /\ ValueOf(K_LISTEN_QUEUE) < QueueWarning
         /\ total > 0) =>
            IF active * 100 >= UtilizationCritical * total
            THEN exit_code = Some(2)
            ELSE IF active * 100 >= UtilizationWarning * total
            THEN exit_code = Some(1)
            ELSE exit_code = Some(0)

\* The configuration C3 speaks of.
BadThresholds ==
    \/ QueueWarning >= QueueCritical
    \/ UtilizationWarning >= UtilizationCritical
    \/ UtilizationWarning \notin 0..100
    \/ UtilizationCritical \notin 0..100

\* C3: with queueWarning >= queueCritical, utilizationWarning >=
\* utilizationCritical or a utilization bound outside [0,100], the run never
\* gets past the validation, makes no socket call and, once ended, has
\* exit code 3.
C3_ConfigRejectedBeforeIO ==
    BadThresholds =>
        /\ pc \in {"apply_args", "validate", "done"}
        /\ ioLog = <<>>
        /\ sock = "none"
        /\ pc = "done" => exit_code = Some(3)

\* A run that ended 3 without a socket call where only the critical
\* percentage is out of range.
C3_Witness ==
    /\ Ended(3) /\ ioLog = <<>>
    /\ QueueWarning < QueueCritical
    /\ UtilizationWarning < UtilizationCritical
    /\ UtilizationWarning \in 0..100
    /\ UtilizationCritical > 100

\* A metric the verdict needs is missing or no integer, or total is 0.
MetricTrouble ==
    \/ ~IsInt(K_LISTEN_QUEUE)
    \/ /\ IsInt(K_LISTEN_QUEUE)
       /\ ValueOf(K_LISTEN_QUEUE) < QueueWarning
       /\ \/ ~IsInt(K_ACTIVE_PROCESSES)
          \/ ~IsInt(K_TOTAL_PROCESSES)
          \/ ValueOf(K_TOTAL_PROCESSES) = 0

\* C4: after a successful exchange, a run whose snapshot lacks a metric the
\* verdict needs, or has it as a non-integer, or has total processes 0, ends
\* UNKNOWN (3).
C4_MetricErrorIsUnknown ==
    (pc = "done" /\ fpm_status # None /\ MetricTrouble) => exit_code = Some(3)

\* C5: a run whose exchange failed (connect, send, read, record type, or a
\* payload without a status body) ends with exit code 3.
C5_FailedExchangeIsUnknown ==
    (pc = "done" /\ "connect" \in Range(ioLog) /\ status_data = None) =>
        exit_code = Some(3)

\* C6: in the first PARAMS record contentLength + paddingLength is a multiple
\* of 8, paddingLength is in 0..7, and that many zero bytes stand between the
\* content and the empty PARAMS record.
C6_ParamsPadding ==
    fcgi_params # None =>
        LET rec == fcgi_params[1]
            h   == UnpackHeader(Take(rec, FCGI_HDR_LENGTH))
            end == FCGI_HDR_LENGTH + Len(Utf8Encode(JoinPairs(params)))
        IN  /\ (h.length + h.padding) % 8 = 0
            /\ h.padding \in 0..7
            /\ SubSeq(rec, end + 1, end + h.padding) = Zeros(h.padding)
            /\ Drop(rec, end + h.padding)
                   = PackHeader(FCGI_VERSION, FCGI_PARAMS, REQUEST_ID, 0, 0)

\* The number of leading STDOUT records with content.
StdoutRun(records) ==
    Least({n \in 0..Len(records) :
              n = Len(records) \/ records[n + 1].type # FCGI_STDOUT
                               \/ records[n + 1].content = <<>>})

\* The pool sent n >= 1 STDOUT records with content and then the empty one,
\* both sends worked and every recv() got what it asked for.
WholeStdoutStream(o) ==
    /\ o.send = 0 /\ o.short = 0
    /\ o.delivered = Len(Wire(o.records))
    /\ StdoutRun(o.records) >= 1
    /\ StdoutRun(o.records) < Len(o.records)
    /\ o.records[StdoutRun(o.records) + 1].type = FCGI_STDOUT

\* C7: after such a stream the raw payload is the content of all n records
\* in order.
C7_AllStdoutRecordsRead ==
    (raw_status_data # None /\ WholeStdoutStream(peer)) =>
        raw_status_data[1] =
            Flatten([i \in 1..StdoutRun(peer.records) |->
                        peer.records[i].content])

\* C8: a run that created the socket has closed it when it ends.
C8_SocketClosedAtExit ==
    (pc = "done" /\ sock # "none") => sock = "closed"

\* The part of a line its value is taken from: all of the text behind the
\* first colon, or that text up to the second colon.
ValuePart(whole, line) ==
    IF whole THEN AfterFirstColon(line) ELSE BetweenColons(line)

\* Line i is the last line with its key that has a colon and a token in its
\* value part.
LastOfKey(whole, i) ==
    /\ HasColon(BodyLines[i])
    /\ HasToken(ValuePart(whole, BodyLines[i]))
    /\ \A j \in (i + 1)..Len(BodyLines) :
          ~(/\ HasColon(BodyLines[j])
            /\ KeyOf(BodyLines[j]) = KeyOf(BodyLines[i])
            /\ HasToken(ValuePart(whole, BodyLines[j])))

\* The snapshot maps the key of each such line to the last token of its
\* value part.
SnapshotHasLastTokens(whole) ==
    fpm_status # None =>
        \A i \in 1..Len(BodyLines) :
            LastOfKey(whole, i) =>
                /\ KeyOf(BodyLines[i]) \in DOMAIN fpm_status[1]
                /\ fpm_status[1][KeyOf(BodyLines[i])]
                       = LastToken(ValuePart(whole, BodyLines[i]))

\* C9 as stated: the value of a line is the last whitespace-separated token
\* of everything behind its first colon.
C9_LastTokenAfterFirstColon == SnapshotHasLastTokens(TRUE)

\* C9 as amended: the value of a line is the last whitespace-separated token
\* of the text between its first colon and its second colon (or its end).
C9_LastTokenBetweenColons == SnapshotHasLastTokens(FALSE)

\* The start time line was parsed and its value is "01/Jan/2020".
C9_Witness ==
    /\ status_data = Some(Append(StartTimeLine, LF))
    /\ fpm_status # None
    /\ fpm_status[1][KeyOf(StartTimeLine)]
           = <<48, 49, 47, 74, 97, 110, 47, 50, 48, 50, 48>>

\* C10: output_json_status raises no error, whatever the body.
C10_ParserNeverRaises ==
    pc = "done" => traceback # "IndexError"

============================================================================
